---- MODULE Spec2Model ----
(***************************************************************************)
(* prefect_monte_carlo.graphql.execute_graphql_operation                   *)
(*                                                                         *)
(*   client = montecarlo_credentials.get_client()          (line 83)       *)
(*   return client(operation, variables=variables)         (line 84)       *)
(*                                                                         *)
(* Several invocations of the task run side by side.  Each invocation has  *)
(* its own frame (parameters and the local `client`).  The credentials     *)
(* handles and the variables mappings are objects owned by the callers.    *)
(* get_client and the client itself are collaborators: what they return or *)
(* raise is chosen by the environment.                                     *)
(***************************************************************************)
EXTENDS Naturals, Sequences, FiniteSets

\* Number of invocations of the task that may be in progress together.
NumInvocations == 2

Invocations == 1 .. NumInvocations

---------------------------------------------------------------------------
\* Values.  Every Python value of the model has the shape [kind, items].

Val(k, its) == [kind |-> k, items |-> its]

\* Python's None.
NoneVal == Val("None", {})

\* A call site that does not give the `variables` argument.
Omitted == Val("omitted", {})

Dict(its) == Val("dict", its)

EmptyDict == Dict({})

Err(name) == Val("error", {<<"type", name>>})

\* The credentials handles the callers hold (MonteCarloCredentials blocks).
CredentialsHandles == {"mc_creds_a", "mc_creds_b"}

\* The content of each handle, set by its owner before any invocation.
InitialCredentials ==
    [c \in CredentialsHandles |->
        IF c = "mc_creds_a" THEN Val("credentials", {<<"api_key_id", "id_a">>})
                            ELSE Val("credentials", {<<"api_key_id", "id_b">>})]

\* Operation documents (the two of the docstring's examples).
Operations == {"query getUser { getUser { email } }",
               "query getTables($first: Int){ getTables(first: $first) }"}

\* What a call site may give for `variables`: nothing, or a mapping.
VariablesArgs == {Omitted, Dict({<<"first", "10">>})}

\* What the client may answer, and what the collaborators may raise.
Responses == {Dict({<<"getUser", "email">>}), Dict({<<"getTables", "edges">>, <<"errors", "none">>})}

ClientErrors == {Err("AuthenticationError"), Err("NetworkError")}

GetClientErrors == {Err("InvalidSessionError")}

\* Outcomes of a call: a returned value or a raised error.
Return(v) == [kind |-> "return", payload |-> v]

Raise(e) == [kind |-> "raise", payload |-> e]

NoOutcome == [kind |-> "none", payload |-> NoneVal]

---------------------------------------------------------------------------
VARIABLES
    pc,                     \* position of each invocation in the function body
    montecarlo_credentials, \* parameter: the handle passed
    operation,              \* parameter
    variables,              \* parameter (after default binding)
    client,                 \* local of line 83
    outcome,                \* how the invocation ended, as seen by its caller
    callerCredentials,      \* the callers' credentials objects, by handle
    callerVariables,        \* each caller's variables object (or Omitted)
    passed,                 \* what each caller passed when it invoked the task
    getClientCalls,         \* per invocation: the get_client calls made, with outcome
    clientCalls,            \* per invocation: the client calls made, with arguments
    clientResults           \* per invocation: what the client answered or raised

vars == <<pc, montecarlo_credentials, operation, variables, client, outcome,
          callerCredentials, callerVariables, passed,
          getClientCalls, clientCalls, clientResults>>

frame == <<montecarlo_credentials, operation, variables>>

\* The signature's default for `variables` (line 14).
DefaultVariablesEmptyDict == EmptyDict

DefaultVariables == NoneVal

\* Binding of the `variables` parameter at a call (lines 11-15).
BindVariables(arg) == IF arg = Omitted THEN DefaultVariables ELSE arg

\* What get_client of a handle can do: return a client built from the handle's
\* content, or raise.
ClientFor(c) == Val("client", callerCredentials[c].items)

GetClientOutcomes(c) == {Return(ClientFor(c))} \cup {Raise(e) : e \in GetClientErrors}

\* The arguments of the client call of line 84.
ClientArgsOfOther(i) ==
    LET j == IF i = NumInvocations THEN 1 ELSE i + 1
    IN  [operation |-> operation[j], variables |-> variables[j]]

ClientArgsDropVariables(i) == [operation |-> operation[i], variables |-> NoneVal]

ClientArgs(i) == [operation |-> operation[i], variables |-> variables[i]]

\* The object called at line 84: the local bound at line 83.
CalledClientStale(i) == Val("client", {<<"api_key_id", "cached">>})

CalledClient(i) == client[i]

\* `return client(...)`: the client's answer is the function's result.
ReturnValueFiltered(r) == Dict({kv \in r.items : kv[1] # "errors"})

ReturnValue(r) == r

\* No try/except around lines 83-84: an exception leaves the function as it is.
PropagateWrapped(e) == Raise(Err("RuntimeError"))

Propagate(e) == Raise(e)

Init ==
    /\ pc = [i \in Invocations |-> "idle"]
    /\ montecarlo_credentials = [i \in Invocations |-> "mc_creds_a"]
    /\ operation = [i \in Invocations |-> ""]
    /\ variables = [i \in Invocations |-> NoneVal]
    /\ client = [i \in Invocations |-> NoneVal]
    /\ outcome = [i \in Invocations |-> NoOutcome]
    /\ callerCredentials = InitialCredentials
    /\ callerVariables = [i \in Invocations |-> Omitted]
    /\ passed = [i \in Invocations |->
                    [montecarlo_credentials |-> "mc_creds_a", operation |-> "",
                     variables |-> Omitted]]
    /\ getClientCalls = [i \in Invocations |-> <<>>]
    /\ clientCalls = [i \in Invocations |-> <<>>]
    /\ clientResults = [i \in Invocations |-> <<>>]

\* A caller invokes the task: the parameters are bound (lines 11-15).
Invoke(i) ==
    /\ pc[i] = "idle"
    /\ \E c \in CredentialsHandles, op \in Operations, v \in VariablesArgs :
        /\ passed' = [passed EXCEPT ![i] =
                        [montecarlo_credentials |-> c, operation |-> op, variables |-> v]]
        /\ callerVariables' = [callerVariables EXCEPT ![i] = v]
        /\ montecarlo_credentials' = [montecarlo_credentials EXCEPT ![i] = c]
        /\ operation' = [operation EXCEPT ![i] = op]
        /\ variables' = [variables EXCEPT ![i] = BindVariables(v)]
    /\ pc' = [pc EXCEPT ![i] = "line83"]
    /\ UNCHANGED <<client, outcome, callerCredentials, getClientCalls, clientCalls,
                   clientResults>>

\* Line 83, get_client returns: the local `client` is bound.
GetClientReturns(i) ==
    /\ pc[i] = "line83"
    /\ \E out \in GetClientOutcomes(montecarlo_credentials[i]) :
        /\ out.kind = "return"
        /\ getClientCalls' = [getClientCalls EXCEPT ![i] =
              Append(@, [credentials |-> montecarlo_credentials[i], result |-> out])]
        /\ client' = [client EXCEPT ![i] = out.payload]
    /\ pc' = [pc EXCEPT ![i] = "line84"]
    /\ UNCHANGED <<frame, outcome, callerCredentials, callerVariables, passed,
                   clientCalls, clientResults>>

\* Line 83, get_client raises: the exception leaves the function.
GetClientRaises(i) ==
    /\ pc[i] = "line83"
    /\ \E out \in GetClientOutcomes(montecarlo_credentials[i]) :
        /\ out.kind = "raise"
        /\ getClientCalls' = [getClientCalls EXCEPT ![i] =
              Append(@, [credentials |-> montecarlo_credentials[i], result |-> out])]
        /\ outcome' = [outcome EXCEPT ![i] = Propagate(out.payload)]
    /\ pc' = [pc EXCEPT ![i] = "done"]
    /\ UNCHANGED <<frame, client, callerCredentials, callerVariables, passed,
                   clientCalls, clientResults>>

\* Variant of the call that fills in the caller's mapping before sending it.
CallClientMutates(i) ==
    /\ pc[i] = "line84"
    /\ clientCalls' = [clientCalls EXCEPT ![i] =
          Append(@, [client |-> client[i], operation |-> operation[i],
                     variables |-> variables[i]])]
    /\ callerVariables' = [callerVariables EXCEPT ![i] =
          IF @.kind = "dict" THEN Dict(@.items \cup {<<"requested_by", "prefect">>}) ELSE @]
    /\ pc' = [pc EXCEPT ![i] = "in_client"]
    /\ UNCHANGED <<frame, client, outcome, callerCredentials, passed,
                   getClientCalls, clientResults>>

\* Variant of the call that checks the operation itself and rejects it.
CallClientValidates(i) ==
    /\ pc[i] = "line84"
    /\ outcome' = [outcome EXCEPT ![i] = Raise(Err("ValueError"))]
    /\ pc' = [pc EXCEPT ![i] = "done"]
    /\ UNCHANGED <<frame, client, callerCredentials, callerVariables, passed,
                   getClientCalls, clientCalls, clientResults>>

\* Variant of the call that waits for a permit nobody hands out.
CallClientWaits(i) ==
    /\ pc[i] = "line84"
    /\ UNCHANGED vars

\* Line 84, the call: the client receives operation and variables.
CallClient(i) ==
    /\ pc[i] = "line84"
    /\ clientCalls' = [clientCalls EXCEPT ![i] =
          Append(@, [client |-> CalledClient(i),
                     operation |-> ClientArgs(i).operation,
                     variables |-> ClientArgs(i).variables])]
    /\ pc' = [pc EXCEPT ![i] = "in_client"]
    /\ UNCHANGED <<frame, client, outcome, callerCredentials, callerVariables, passed,
                   getClientCalls, clientResults>>

\* Line 84, the client answers: its answer is returned to the caller.
ClientReturns(i) ==
    /\ pc[i] = "in_client"
    /\ \E r \in Responses :
        /\ clientResults' = [clientResults EXCEPT ![i] = Append(@, Return(r))]
        /\ outcome' = [outcome EXCEPT ![i] = Return(ReturnValue(r))]
    /\ pc' = [pc EXCEPT ![i] = "done"]
    /\ UNCHANGED <<frame, client, callerCredentials, callerVariables, passed,
                   getClientCalls, clientCalls>>

\* Variant of the failure path that calls the client once more before giving up.
ClientRaisesRetry(i) ==
    /\ pc[i] = "in_client"
    /\ \E e \in ClientErrors :
        /\ clientResults' = [clientResults EXCEPT ![i] = Append(@, Raise(e))]
        /\ IF Len(clientCalls[i]) < 2
              THEN /\ pc' = [pc EXCEPT ![i] = "line84"]
                   /\ UNCHANGED outcome
              ELSE /\ pc' = [pc EXCEPT ![i] = "done"]
                   /\ outcome' = [outcome EXCEPT ![i] = Raise(e)]
    /\ UNCHANGED <<frame, client, callerCredentials, callerVariables, passed,
                   getClientCalls, clientCalls>>

\* Line 84, the client raises: the exception leaves the function.
ClientRaises(i) ==
    /\ pc[i] = "in_client"
    /\ \E e \in ClientErrors :
        /\ clientResults' = [clientResults EXCEPT ![i] = Append(@, Raise(e))]
        /\ outcome' = [outcome EXCEPT ![i] = Propagate(e)]
    /\ pc' = [pc EXCEPT ![i] = "done"]
    /\ UNCHANGED <<frame, client, callerCredentials, callerVariables, passed,
                   getClientCalls, clientCalls>>

Next ==
    \E i \in Invocations :
        \/ Invoke(i)
        \/ GetClientReturns(i)
        \/ GetClientRaises(i)
        \/ CallClient(i)
        \/ ClientReturns(i)
        \/ ClientRaises(i)

Spec == Init /\ [][Next]_vars

\* get_client completes, the interpreter goes on from line 83 to line 84, and
\* the client call completes.
Fairness ==
    \A i \in Invocations :
        /\ WF_vars(GetClientReturns(i) \/ GetClientRaises(i))
        /\ WF_vars(CallClient(i))
        /\ WF_vars(ClientReturns(i) \/ ClientRaises(i))

FairSpec == Init /\ [][Next]_vars /\ Fairness

---------------------------------------------------------------------------
\* Vocabulary of the properties.

Finished(i) == pc[i] = "done"

GotClient(i) == Len(getClientCalls[i]) > 0 /\ getClientCalls[i][1].result.kind = "return"

GetClientFailed(i) ==
    \E k \in 1 .. Len(getClientCalls[i]) : getClientCalls[i][k].result.kind = "raise"

ClientFailed(i) ==
    \E k \in 1 .. Len(clientResults[i]) : clientResults[i][k].kind = "raise"

ClientAnswered(i) ==
    \E k \in 1 .. Len(clientResults[i]) : clientResults[i][k].kind = "return"

\* The variables value the caller handed over, None standing for an omitted one.
PassedVariables(i) == IF passed[i].variables = Omitted THEN NoneVal ELSE passed[i].variables

LastResult(i) == clientResults[i][Len(clientResults[i])]

---------------------------------------------------------------------------
C2_ResultIsClientResponse ==
    \A i \in Invocations :
        /\ outcome[i].kind = "return" =>
              /\ Len(clientResults[i]) = 1
              /\ outcome[i].payload = clientResults[i][1].payload
        /\ (ClientAnswered(i) /\ Finished(i)) => outcome[i] = LastResult(i)

C2_Witness ==
    \E i \in Invocations :
        /\ outcome[i].kind = "return"
        /\ Cardinality(outcome[i].payload.items) = 2

\* C3: when the client call raises, the invocation ends raising that same
\* error, not another error and not a return value.
C3_ClientErrorPropagates ==
    \A i \in Invocations :
        ClientFailed(i) =>
            /\ Finished(i)
            /\ outcome[i].kind = "raise"
            /\ outcome[i].payload = LastResult(i).payload

C3_Witness ==
    \E i \in Invocations :
        /\ ClientFailed(i)
        /\ outcome[i] = Raise(Err("NetworkError"))

\* C4: when the caller omits variables, the client is called with None, not
\* with an empty mapping or any other made-up value.
C4_OmittedVariablesAreNone ==
    \A i \in Invocations :
        passed[i].variables = Omitted =>
            \A k \in 1 .. Len(clientCalls[i]) : clientCalls[i][k].variables = NoneVal

C4_Witness ==
    \E i \in Invocations :
        /\ pc[i] # "idle"
        /\ passed[i].variables = Omitted
        /\ Len(clientCalls[i]) = 1

\* C5: no retry: once the client call of an invocation has raised, the
\* invocation is over with that error and the client is not called again.
C5_NoRetry ==
    /\ [](\A i \in Invocations :
            ClientFailed(i) =>
                /\ Len(clientCalls[i]) = 1
                /\ Len(clientResults[i]) = 1
                /\ Finished(i))
    /\ [][\A i \in Invocations :
            ClientFailed(i) => /\ clientCalls'[i] = clientCalls[i]
                               /\ pc'[i] = pc[i]]_vars

C5_Witness ==
    \E i \in Invocations :
        /\ ClientFailed(i)
        /\ LastResult(i) = Raise(Err("AuthenticationError"))
        /\ Finished(i)

\* C6: the inputs are never mutated: during and after an invocation the
\* operation, the caller's variables mapping and the credentials handle are
\* what they were when the invocation started.
C6_InputsNotMutated ==
    \A i \in Invocations :
        pc[i] # "idle" =>
            /\ operation[i] = passed[i].operation
            /\ montecarlo_credentials[i] = passed[i].montecarlo_credentials
            /\ callerVariables[i] = passed[i].variables
            /\ callerCredentials = InitialCredentials

C6_Witness ==
    \E i, j \in Invocations :
        /\ outcome[i].kind = "return" /\ passed[i].variables.kind = "dict"
        /\ outcome[j].kind = "raise" /\ passed[j].variables.kind = "dict"

\* C7 as stated: an invocation ends in an error only when its client call
\* raised one, and the error is that one.
C7_Original_ErrorOnlyFromClientCall ==
    \A i \in Invocations :
        outcome[i].kind = "raise" =>
            /\ ClientFailed(i)
            /\ outcome[i].payload = LastResult(i).payload

\* C7 amended: an invocation ends in an error only when get_client or the
\* client call raised one, and that error reaches the caller unchanged.
C7_ErrorOnlyFromCollaborators ==
    \A i \in Invocations :
        /\ outcome[i].kind = "raise" =>
              \/ /\ GetClientFailed(i)
                 /\ outcome[i].payload = getClientCalls[i][1].result.payload
              \/ /\ ClientFailed(i)
                 /\ outcome[i].payload = LastResult(i).payload
        /\ (Finished(i) /\ (GetClientFailed(i) \/ ClientFailed(i))) =>
              outcome[i].kind = "raise"

C7_Witness ==
    \E i \in Invocations :
        /\ outcome[i] = Raise(Err("InvalidSessionError"))
        /\ GetClientFailed(i)
        /\ clientCalls[i] = <<>>

\* C8: invocations are independent under any interleaving: each client call
\* carries its own invocation's arguments, each invocation ends with the
\* outcome of its own client call, and a step of one invocation changes
\* nothing of another invocation.
C8_InvocationsIndependent ==
    /\ [](\A i \in Invocations :
            /\ \A k \in 1 .. Len(clientCalls[i]) :
                  /\ clientCalls[i][k].operation = passed[i].operation
                  /\ clientCalls[i][k].variables = PassedVariables(i)
            /\ (Finished(i) /\ Len(clientResults[i]) > 0) => outcome[i] = LastResult(i))
    /\ [][\A i \in Invocations :
            pc'[i] = pc[i] =>
                /\ operation'[i] = operation[i]
                /\ variables'[i] = variables[i]
                /\ montecarlo_credentials'[i] = montecarlo_credentials[i]
                /\ client'[i] = client[i]
                /\ outcome'[i] = outcome[i]
                /\ callerVariables'[i] = callerVariables[i]
                /\ clientCalls'[i] = clientCalls[i]
                /\ clientResults'[i] = clientResults[i]]_vars

C8_Witness ==
    \E i, j \in Invocations :
        /\ i # j
        /\ passed[i].operation # passed[j].operation
        /\ passed[i].variables # passed[j].variables
        /\ Finished(i) /\ ClientAnswered(i)
        /\ pc[j] = "in_client"

\* C9: within an invocation get_client is asked exactly once, before the
\* client is called; the client called is the one get_client returned; when
\* get_client raises the client is never called.
C9_GetClientThenCall ==
    \A i \in Invocations :
        /\ Len(getClientCalls[i]) <= 1
        /\ \A k \in 1 .. Len(getClientCalls[i]) :
              getClientCalls[i][k].credentials = passed[i].montecarlo_credentials
        /\ pc[i] \in {"line84", "in_client"} => Len(getClientCalls[i]) = 1
        /\ Finished(i) => Len(getClientCalls[i]) = 1
        /\ Len(clientCalls[i]) > 0 =>
              /\ GotClient(i)
              /\ \A k \in 1 .. Len(clientCalls[i]) :
                    clientCalls[i][k].client = getClientCalls[i][1].result.payload
        /\ GetClientFailed(i) => (clientCalls[i] = <<>> /\ clientResults[i] = <<>>)

C9_Witness ==
    \E i, j \in Invocations :
        /\ Len(clientCalls[i]) = 1 /\ GotClient(i)
        /\ GetClientFailed(j) /\ Finished(j)

\* C10: every invocation completes, with a result or an error, provided
\* get_client and the client call each complete.
C10_InvocationCompletes ==
    \A i \in Invocations :
        (pc[i] # "idle") ~> (Finished(i) /\ outcome[i].kind \in {"return", "raise"})

C10_Witness ==
    \E i, j \in Invocations :
        /\ Finished(i) /\ outcome[i].kind = "return"
        /\ Finished(j) /\ outcome[j].kind = "raise"

====
